---- MODULE Spec2Model ----
(***************************************************************************)
(* Model of the ashell workspaces module: the Hyprland query adapter       *)
(* (get_workspaces), the Hyprland event listener (create_subscription)     *)
(* and the manager-agnostic controller (Workspaces::new / update).         *)
(*                                                                         *)
(* Strings that the code inspects (workspace names) are sequences of       *)
(* one-character strings; Option<T> is the empty sequence (None) or a      *)
(* one-element sequence (Some).                                            *)
(***************************************************************************)
EXTENDS Integers, Sequences, FiniteSets, TLC

VARIABLES
    wm,          \* the window manager's own state: active workspace, monitors, workspaces
    config,      \* Workspaces.config (immutable for the controller's lifetime)
    workspaces,  \* Workspaces.workspaces, the controller's list
    queried,     \* what the three queries of the last get_workspaces call returned
    ctl,         \* controller: "new" (before Workspaces::new), "ready", "panicked"
    last,        \* the message the last update processed and the dispatch calls it made
    output,      \* number of WorkspacesChanged notifications buffered in the channel
    pending,     \* window-manager events emitted to the session and not yet handled
    listener,    \* listener task: "connecting", "listening", "panicked"
    missed,      \* history: the window manager changed while no session was listening
    subscribed   \* the config the running subscription stream was created from

vars == <<wm, config, workspaces, queried, ctl, last, output, pending, listener, missed,
          subscribed>>

(***************************************************************************)
(* Bounds of the model.                                                    *)
(***************************************************************************)
MaxLen == 2          \* longest upstream workspace list
MaxPending == 2      \* most events waiting in a session's socket
MaxName == 4         \* longest raw name of a special workspace

NormalIds == {1, 2, 3}      \* ids of normal workspaces the backend reports
SpecialIds == {-1}          \* ids of special workspaces the backend reports
WindowCounts == {0, 1}      \* window counts the backend reports
MaxWorkspacesChoices == {<<>>, <<2>>, <<4>>}   \* config.max_workspaces: None or Some(n)

(***************************************************************************)
(* Program constants.                                                      *)
(***************************************************************************)
ChannelSize == 10    \* channel(10, ...) of create_subscription
U16 == 65536         \* Workspace.windows and VirtualDesktop.windows are u16

None == <<>>
Some(x) == <<x>>

(***************************************************************************)
(* Integer helpers with the semantics of the Rust operators.               *)
(***************************************************************************)
\* i32 `/`: truncates toward zero (b > 0 here; b = 0 panics, see Panics)
TruncDiv(a, b) == IF a >= 0 THEN a \div b ELSE -((-a) \div b)

Digit(d) == <<"0", "1", "2", "3", "4", "5", "6", "7", "8", "9">>[d + 1]

RECURSIVE Digits(_)
Digits(n) == IF n < 10 THEN <<Digit(n)>> ELSE Digits(n \div 10) \o <<Digit(n % 10)>>

\* i32::to_string
to_string(n) == IF n < 0 THEN <<"-">> \o Digits(-n) ELSE Digits(n)

(***************************************************************************)
(* hyprland.rs, get_workspaces                                             *)
(***************************************************************************)
\* a deduplication that keeps the last occurrence of each id
RECURSIVE unique_by_last(_)
unique_by_last(ws) ==
    IF ws = <<>> THEN <<>>
    ELSE IF \E i \in 2..Len(ws) : ws[i].id = Head(ws).id
         THEN unique_by_last(Tail(ws))
         ELSE <<Head(ws)>> \o unique_by_last(Tail(ws))

\* Iterator::unique_by(|w| w.id): keeps the first occurrence of each id
RECURSIVE UniqueFrom(_, _)
UniqueFrom(ws, seen) ==
    IF ws = <<>> THEN <<>>
    ELSE IF Head(ws).id \in seen THEN UniqueFrom(Tail(ws), seen)
    ELSE <<Head(ws)>> \o UniqueFrom(Tail(ws), seen \cup {Head(ws).id})

unique_by(ws) == UniqueFrom(ws, {})

\* a split that yields nothing for a name without ':'
split_last_or_empty(s) ==
    IF \E i \in 1..Len(s) : s[i] = ":"
    THEN LET k == CHOOSE i \in 1..Len(s) : s[i] = ":" /\ \A j \in (i + 1)..Len(s) : s[j] # ":"
         IN SubSeq(s, k + 1, Len(s))
    ELSE <<>>

\* name.split(":").last(): the part after the last ':' (the whole name without ':')
RECURSIVE split_last(_)
split_last(s) ==
    IF \E i \in 1..Len(s) : s[i] = ":"
    THEN LET i == CHOOSE k \in 1..Len(s) : s[k] = ":" /\ \A j \in 1..(k - 1) : s[j] # ":"
         IN split_last(SubSeq(s, i + 1, Len(s)))
    ELSE s

\* config.workspace_names.get((id - 1) as usize).cloned().unwrap_or_else(|| id.to_string())
display_name(id, cfg) ==
    IF id - 1 >= 0 /\ id - 1 < Len(cfg.workspace_names)
    THEN cfg.workspace_names[id]
    ELSE to_string(id)

\* lines 44-64 with an unassigned special workspace shown as Visible
special_entry_visible(w, monitors) ==
    [id |-> w.id,
     name |-> split_last(w.name),
     monitor_id |-> w.monitor_id,
     monitor |-> w.monitor,
     displayed |-> IF \E i \in 1..Len(monitors) : monitors[i].special_workspace = w.id
                   THEN "Active" ELSE "Visible",
     windows |-> w.windows]

\* lines 44-64: one entry per special workspace
special_entry(w, monitors) ==
    [id |-> w.id,
     name |-> split_last(w.name),
     monitor_id |-> w.monitor_id,
     monitor |-> w.monitor,
     displayed |-> IF \E i \in 1..Len(monitors) : monitors[i].special_workspace = w.id
                   THEN "Active" ELSE "Hidden",
     windows |-> w.windows]

\* lines 71-87: fold of the normal workspaces into the virtual_desktops map
RECURSIVE virtual_desktops(_, _, _, _)
virtual_desktops(normal, vds, monitor_count, active) ==
    IF normal = <<>> THEN vds
    ELSE LET w == Head(normal)
             vdesk_id == TruncDiv(w.id - 1, monitor_count) + 1
             hit == (Some(w.id) = active)
             next == IF vdesk_id \in DOMAIN vds
                     THEN [vds EXCEPT ![vdesk_id] =
                              [active |-> @.active \/ hit,
                               windows |-> (@.windows + w.windows) % U16]]
                     ELSE [k \in DOMAIN vds \cup {vdesk_id} |->
                              IF k = vdesk_id
                              THEN [active |-> hit, windows |-> w.windows]
                              ELSE vds[k]]
         IN virtual_desktops(Tail(normal), next, monitor_count, active)

\* lines 90-111 with the activeness of the virtual desktop left out
vdesk_entry_hidden(id, vdesk, cfg) ==
    [id |-> id,
     name |-> display_name(id, cfg),
     monitor_id |-> None,
     monitor |-> "",
     displayed |-> "Hidden",
     windows |-> vdesk.windows]

\* lines 90-111: one entry per virtual desktop
vdesk_entry(id, vdesk, cfg) ==
    [id |-> id,
     name |-> display_name(id, cfg),
     monitor_id |-> None,
     monitor |-> "",
     displayed |-> IF vdesk.active THEN "Active" ELSE "Hidden",
     windows |-> vdesk.windows]

\* lines 114-139 with every workspace a monitor shows taken for the active one
normal_entry_visible_active(w, monitors, active, cfg) ==
    LET is_active == active # None /\ active[1] = w.id
        visible == \E i \in 1..Len(monitors) : monitors[i].active_workspace = w.id
    IN [id |-> w.id,
        name |-> IF w.id > 0 THEN display_name(w.id, cfg) ELSE w.name,
        monitor_id |-> w.monitor_id,
        monitor |-> w.monitor,
        displayed |-> IF is_active \/ visible THEN "Active" ELSE "Hidden",
        windows |-> w.windows]

\* lines 114-139 with the backend's active workspace left out
normal_entry_without_active(w, monitors, active, cfg) ==
    LET visible == \E i \in 1..Len(monitors) : monitors[i].active_workspace = w.id
    IN [id |-> w.id,
        name |-> IF w.id > 0 THEN display_name(w.id, cfg) ELSE w.name,
        monitor_id |-> w.monitor_id,
        monitor |-> w.monitor,
        displayed |-> IF visible THEN "Visible" ELSE "Hidden",
        windows |-> w.windows]

\* lines 114-139 with the monitors' current workspaces left out
normal_entry_never_visible(w, monitors, active, cfg) ==
    LET is_active == active # None /\ active[1] = w.id
    IN [id |-> w.id,
        name |-> IF w.id > 0 THEN display_name(w.id, cfg) ELSE w.name,
        monitor_id |-> w.monitor_id,
        monitor |-> w.monitor,
        displayed |-> IF is_active THEN "Active" ELSE "Hidden",
        windows |-> w.windows]

\* lines 114-139: one entry per normal workspace in per-monitor mode
normal_entry(w, monitors, active, cfg) ==
    LET is_active == active # None /\ active[1] = w.id
        visible == \E i \in 1..Len(monitors) : monitors[i].active_workspace = w.id
    IN [id |-> w.id,
        name |-> IF w.id > 0 THEN display_name(w.id, cfg) ELSE w.name,
        monitor_id |-> w.monitor_id,
        monitor |-> w.monitor,
        displayed |-> IF is_active THEN "Active"
                      ELSE IF visible THEN "Visible" ELSE "Hidden",
        windows |-> w.windows]

\* lines 167-186: a synthesized workspace
filled_entry(id, cfg) ==
    [id |-> id,
     name |-> IF id > 0 THEN display_name(id, cfg) ELSE to_string(id),
     monitor_id |-> None,
     monitor |-> "",
     displayed |-> "Hidden",
     windows |-> 0]

\* Vec::sort_by_key(|w| w.id): a stable sort
RECURSIVE insert_by_id(_, _)
insert_by_id(sorted, w) ==
    IF sorted = <<>> THEN <<w>>
    ELSE IF Head(sorted).id <= w.id
         THEN <<Head(sorted)>> \o insert_by_id(Tail(sorted), w)
         ELSE <<w>> \o sorted

RECURSIVE SortFrom(_, _)
SortFrom(list, acc) ==
    IF list = <<>> THEN acc ELSE SortFrom(Tail(list), insert_by_id(acc, Head(list)))

\* the list left in the order it was built in
sort_by_key_skipped(list) == list

sort_by_key(list) == SortFrom(list, <<>>)

\* (1..=max_id).filter(|id| !existing_ids.contains(id)), in ascending order
RECURSIVE missing_ids(_, _, _)
missing_ids(from, max_id, existing_ids) ==
    IF from > max_id THEN <<>>
    ELSE (IF from \in existing_ids THEN <<>> ELSE <<from>>)
         \o missing_ids(from + 1, max_id, existing_ids)

SetMax(S) == CHOOSE x \in S : \A y \in S : y <= x
SetMin(S) == CHOOSE x \in S : \A y \in S : x <= y

\* the query results of lines 27-33: a failed query yields None / an empty list
Queries(w, fail) ==
    [active |-> IF fail.active THEN None ELSE w.active,
     monitors |-> IF fail.monitors THEN <<>> ELSE w.monitors,
     workspaces |-> IF fail.workspaces THEN <<>> ELSE w.workspaces]

Special(q) == SelectSeq(unique_by(q.workspaces), LAMBDA w : w.id < 0)
Normal(q) == SelectSeq(unique_by(q.workspaces), LAMBDA w : ~(w.id < 0))

\* line 73 divides by monitors.len(): integer division by zero panics
Panics(q, cfg) ==
    cfg.enable_virtual_desktops /\ Normal(q) # <<>> /\ Len(q.monitors) = 0

\* the keys of the virtual_desktops map
VdeskMap(q) ==
    virtual_desktops(Normal(q), [k \in {} |-> k], Len(q.monitors), q.active)

\* the orders in which HashMap::into_iter may yield the map's keys
IterationOrders(S) ==
    {o \in [1..Cardinality(S) -> S] : \A i, j \in 1..Cardinality(S) : i # j => o[i] # o[j]}

\* lines 39-140: the result before the filling step
mapped(q, cfg, order) ==
    LET special == Special(q)
        normal == Normal(q)
        vds == VdeskMap(q)
    IN [i \in 1..Len(special) |-> special_entry(special[i], q.monitors)]
       \o (IF cfg.enable_virtual_desktops
           THEN [i \in 1..Len(order) |-> vdesk_entry(order[i], vds[order[i]], cfg)]
           ELSE [i \in 1..Len(normal) |->
                    normal_entry(normal[i], q.monitors, q.active, cfg)])

\* lines 149-186 with config.max_workspaces left out of max_id
filling_ignores_max_workspaces(result, cfg) ==
    LET existing_ids == {result[i].id : i \in 1..Len(result)}
        positive == {id \in existing_ids : id > 0}
        max_id == IF positive = {} THEN 0 ELSE SetMax(positive)
        missing == missing_ids(1, max_id, existing_ids)
    IN [i \in 1..Len(missing) |-> filled_entry(missing[i], cfg)]

\* lines 149-186: the synthesized workspaces (max_id >= 0 and the configured
\* max_workspaces lie in 0 .. 2^31 - 1, where the casts `as u32` and `as i32`
\* change nothing)
filling(result, cfg) ==
    LET existing_ids == {result[i].id : i \in 1..Len(result)}
        positive == {id \in existing_ids : id > 0}
        max_existing == IF positive = {} THEN 0 ELSE SetMax(positive)
        max_id == IF cfg.max_workspaces # None
                     /\ cfg.max_workspaces[1] > max_existing
                  THEN cfg.max_workspaces[1]
                  ELSE max_existing
        missing == missing_ids(1, max_id, existing_ids)
    IN [i \in 1..Len(missing) |-> filled_entry(missing[i], cfg)]

\* lines 26-191 with the filling step confined to per-monitor mode
get_workspaces_fills_per_monitor_only(q, cfg, order) ==
    LET result == mapped(q, cfg, order)
    IN IF ~cfg.enable_workspace_filling \/ Normal(q) = <<>> \/ cfg.enable_virtual_desktops
       THEN sort_by_key(result)
       ELSE sort_by_key(result \o filling(result, cfg))

\* lines 26-191, for query results q on which line 73 does not panic
get_workspaces(q, cfg, order) ==
    LET result == mapped(q, cfg, order)
    IN IF ~cfg.enable_workspace_filling \/ Normal(q) = <<>>
       THEN sort_by_key(result)
       ELSE sort_by_key(result \o filling(result, cfg))

\* the orders the map of this call can be iterated in
Orders(q, cfg) ==
    IF cfg.enable_virtual_desktops /\ ~Panics(q, cfg)
    THEN IterationOrders(DOMAIN VdeskMap(q))
    ELSE {<<>>}

\* every list a get_workspaces call can return in window-manager state w
Results(w, cfg) ==
    UNION {LET q == Queries(w, f)
           IN IF Panics(q, cfg) THEN {}
              ELSE {get_workspaces(q, cfg, o) : o \in Orders(q, cfg)}
           : f \in [active : BOOLEAN, monitors : BOOLEAN, workspaces : BOOLEAN]}

(***************************************************************************)
(* The inputs: what the backend can report.                                *)
(***************************************************************************)
Fails == [active : BOOLEAN, monitors : BOOLEAN, workspaces : BOOLEAN]

RawName(id) == IF id < 0 THEN <<"s", ":", "m">> ELSE to_string(id)

\* two reports of one id differ in name, monitor and window count
RawMonitor(n) == IF n = 0 THEN "DP-1" ELSE "DP-2"
RawMonitorId(n) == IF n = 0 THEN None ELSE Some(n)
RawSuffix(n) == IF n = 0 THEN <<>> ELSE <<"x">>

RawWorkspaces ==
    {[id |-> id, name |-> RawName(id) \o RawSuffix(n), monitor_id |-> RawMonitorId(n),
      monitor |-> RawMonitor(n), windows |-> n]
        : id \in NormalIds \cup SpecialIds, n \in WindowCounts}

SeqsUpTo(S, n) == UNION {[1..k -> S] : k \in 0..n}

MonitorPool ==
    {[active_workspace |-> 1, special_workspace |-> 0],
     [active_workspace |-> 2, special_workspace |-> -1]}

WmStates ==
    [active : {Some(1), Some(2)},
     monitors : SeqsUpTo(MonitorPool, 2),
     workspaces : SeqsUpTo(RawWorkspaces, MaxLen)]

Configs ==
    [enable_virtual_desktops : BOOLEAN,
     enable_workspace_filling : BOOLEAN,
     max_workspaces : MaxWorkspacesChoices,
     workspace_names : {<< <<"w">> >>}]

NoMessage == [msg |-> "none", arg |-> 0, dispatched |-> <<>>, logged |-> None]
NoQuery == [active |-> None, monitors |-> <<>>, workspaces |-> <<>>]

(***************************************************************************)
(* mod.rs, Workspaces::new                                                 *)
(***************************************************************************)
\* mod.rs line 69 (and line 57): the fresh list replaces the stored one
store_merged(old, fresh) == IF old = <<>> THEN fresh ELSE old

store(old, fresh) == fresh

\* a get_workspaces call of the controller against the window manager: it either
\* panics at line 73 or stores the list it returns
Reconcile ==
    \E f \in Fails :
        LET q == Queries(wm, f)
        IN /\ queried' = q
           /\ IF Panics(q, config)
              THEN /\ ctl' = "panicked"
                   /\ UNCHANGED workspaces
              ELSE /\ \E o \in Orders(q, config) :
                         workspaces' = store(workspaces, get_workspaces(q, config, o))
                   /\ ctl' = "ready"

\* mod.rs lines 56-64
New ==
    /\ ctl = "new"
    /\ Reconcile
    /\ UNCHANGED <<wm, config, subscribed, last, output, pending, listener, missed>>

(***************************************************************************)
(* SpecQuery: Workspaces::new applied to every bounded input.              *)
(***************************************************************************)
InitQuery ==
    /\ wm \in WmStates
    /\ config \in Configs
    /\ workspaces = <<>>
    /\ queried = NoQuery
    /\ ctl = "new"
    /\ last = NoMessage
    /\ output = 0
    /\ pending = 0
    /\ listener = "connecting"
    /\ missed = FALSE
    /\ subscribed = config

SpecQuery == InitQuery /\ [][New]_vars

(***************************************************************************)
(* SpecNames: Workspaces::new applied to one special workspace of every    *)
(* bounded raw name.                                                       *)
(***************************************************************************)
RawNames == SeqsUpTo({"s", "m", ":"}, MaxName)

InitNames ==
    /\ wm \in [active : {Some(1)},
                monitors : {<<>>},
                workspaces : {<<[id |-> -1, name |-> nm, monitor_id |-> None,
                                 monitor |-> "DP-1", windows |-> 0]>> : nm \in RawNames}]
    /\ config \in [enable_virtual_desktops : {FALSE},
                    enable_workspace_filling : {FALSE},
                    max_workspaces : {None},
                    workspace_names : {<<>>}]
    /\ workspaces = <<>>
    /\ queried = NoQuery
    /\ ctl = "new"
    /\ last = NoMessage
    /\ output = 0
    /\ pending = 0
    /\ listener = "connecting"
    /\ missed = FALSE
    /\ subscribed = config

SpecNames == InitNames /\ [][New]_vars

(***************************************************************************)
(* hyprland.rs, the dispatch operations.  A call is recorded with its      *)
(* command, the id it carries, the string payload and whether the window   *)
(* manager accepted it.                                                    *)
(***************************************************************************)
\* lines 360-377 with a rejected command sent a second time
change_workspace_retried(id, cfg, ok) ==
    LET call == [cmd |-> IF cfg.enable_virtual_desktops THEN "vdesk" ELSE "workspace",
                 id |-> id,
                 text |-> IF cfg.enable_virtual_desktops THEN to_string(id) ELSE <<>>,
                 ok |-> ok]
    IN IF ok THEN <<call>> ELSE <<call, call>>

\* lines 360-377
change_workspace(id, cfg, ok) ==
    IF cfg.enable_virtual_desktops
    THEN <<[cmd |-> "vdesk", id |-> id, text |-> to_string(id), ok |-> ok]>>
    ELSE <<[cmd |-> "workspace", id |-> id, text |-> <<>>, ok |-> ok]>>

\* lines 379-394 with the toggle sent whatever the focus command answered
toggle_special_workspace_unconditional(workspace, ok_focus, ok_toggle) ==
    LET monitor == IF workspace.monitor_id = None THEN 0 ELSE workspace.monitor_id[1]
    IN <<[cmd |-> "focusmonitor", id |-> monitor, text |-> <<>>, ok |-> ok_focus],
         [cmd |-> "togglespecialworkspace", id |-> workspace.id,
          text |-> workspace.name, ok |-> ok_toggle]>>

\* lines 379-394: the toggle is sent only after the focus command succeeded
toggle_special_workspace(workspace, ok_focus, ok_toggle) ==
    LET monitor == IF workspace.monitor_id = None THEN 0 ELSE workspace.monitor_id[1]
        focus == [cmd |-> "focusmonitor", id |-> monitor, text |-> <<>>, ok |-> ok_focus]
        toggle == [cmd |-> "togglespecialworkspace", id |-> workspace.id,
                   text |-> workspace.name, ok |-> ok_toggle]
    IN IF ok_focus THEN <<focus, toggle>> ELSE <<focus>>

(***************************************************************************)
(* mod.rs, Workspaces::update                                              *)
(***************************************************************************)
\* the Result of a dispatch operation (`.and_then`, `res.map_err`): the error of
\* the first command that failed, or None for Ok(())
dispatch_error(calls) ==
    LET failed == SelectSeq(calls, LAMBDA c : ~c.ok)
    IN IF failed = <<>> THEN None ELSE Some(Head(failed).cmd)

\* what update did with a message: the commands it had sent, and the error it
\* logged (`if let Err(e) = .. { log::error!(..) }`)
processed(msg, arg, calls) ==
    [msg |-> msg, arg |-> arg, dispatched |-> calls, logged |-> dispatch_error(calls)]

\* lines 71-84 with the already-active test left out
update_change_workspace_always(list, cfg, id, ok) ==
    IF id > 0 THEN change_workspace(id, cfg, ok) ELSE <<>>

\* lines 71-84: the dispatch calls of ChangeWorkspace(id)
update_change_workspace(list, cfg, id, ok) ==
    IF id > 0
    THEN LET already_active ==
                 \E i \in 1..Len(list) : list[i].displayed = "Active" /\ list[i].id = id
         IN IF ~already_active THEN change_workspace(id, cfg, ok) ELSE <<>>
    ELSE <<>>

\* Iterator::find: the first element that satisfies the test, or None
find(list, Test(_)) ==
    LET hits == SelectSeq(list, Test) IN IF hits = <<>> THEN None ELSE Some(Head(hits))

\* Iterator::min_by_key(|w| w.id): the first of the least elements, or None
RECURSIVE min_by_key(_, _)
min_by_key(list, best) ==
    IF list = <<>> THEN best
    ELSE min_by_key(Tail(list),
                    IF best = None \/ Head(list).id < best[1].id
                    THEN Some(Head(list)) ELSE best)

\* Iterator::max_by_key(|w| w.id): the last of the greatest elements, or None
RECURSIVE max_by_key(_, _)
max_by_key(list, best) ==
    IF list = <<>> THEN best
    ELSE max_by_key(Tail(list),
                    IF best = None \/ Head(list).id >= best[1].id
                    THEN Some(Head(list)) ELSE best)

\* lines 93-114 with the neighbour taken from the far end of the list
next_workspace_farthest(list, direction) ==
    LET current_workspace == find(list, LAMBDA w : w.displayed = "Active")
    IN IF current_workspace = None THEN None
       ELSE LET current_id == current_workspace[1].id
            IN IF direction > 0
               THEN max_by_key(SelectSeq(list, LAMBDA w : w.id > current_id), None)
               ELSE min_by_key(SelectSeq(list, LAMBDA w : w.id < current_id), None)

\* lines 93-114 with no neighbour selected for direction = 0
next_workspace_zero_idle(list, direction) ==
    LET current_workspace == find(list, LAMBDA w : w.displayed = "Active")
    IN IF current_workspace = None \/ direction = 0 THEN None
       ELSE LET current_id == current_workspace[1].id
            IN IF direction > 0
               THEN min_by_key(SelectSeq(list, LAMBDA w : w.id > current_id), None)
               ELSE max_by_key(SelectSeq(list, LAMBDA w : w.id < current_id), None)

\* lines 93-114 with the last Active entry taken for the current one
next_workspace_from_last_active(list, direction) ==
    LET actives == SelectSeq(list, LAMBDA w : w.displayed = "Active")
    IN IF actives = <<>> THEN None
       ELSE LET current_id == actives[Len(actives)].id
            IN IF direction > 0
               THEN min_by_key(SelectSeq(list, LAMBDA w : w.id > current_id), None)
               ELSE max_by_key(SelectSeq(list, LAMBDA w : w.id < current_id), None)

\* lines 93-114: the workspace Scroll(direction) selects, or None
next_workspace(list, direction) ==
    LET current_workspace == find(list, LAMBDA w : w.displayed = "Active")
    IN IF current_workspace = None THEN None
       ELSE LET current_id == current_workspace[1].id
            IN IF direction > 0
               THEN min_by_key(SelectSeq(list, LAMBDA w : w.id > current_id), None)
               ELSE max_by_key(SelectSeq(list, LAMBDA w : w.id < current_id), None)

\* lines 92-116: the dispatch calls of Scroll(direction)
update_scroll(list, cfg, direction, ok) ==
    LET next == next_workspace(list, direction)
    IN IF next = None THEN <<>>
       ELSE update_change_workspace(list, cfg, next[1].id, ok)

\* lines 85-91 with the test id < 0 left out
update_toggle_special_workspace_any_id(list, id, ok_focus, ok_toggle) ==
    LET special == find(list, LAMBDA w : w.id = id)
    IN IF special = None THEN <<>>
       ELSE toggle_special_workspace(special[1], ok_focus, ok_toggle)

\* lines 85-91: the dispatch calls of ToggleSpecialWorkspace(id)
update_toggle_special_workspace(list, id, ok_focus, ok_toggle) ==
    LET special == find(list, LAMBDA w : w.id = id /\ w.id < 0)
    IN IF special = None THEN <<>>
       ELSE toggle_special_workspace(special[1], ok_focus, ok_toggle)

\* the arguments the messages carry
MessageIds == SpecialIds \cup {0} \cup NormalIds \cup {4}
Directions == {-2, -1, 0, 1, 2}

\* Message::ChangeWorkspace(id), lines 71-84
ChangeWorkspace ==
    /\ ctl = "ready"
    /\ \E id \in MessageIds, ok \in BOOLEAN :
          last' = processed("ChangeWorkspace", id,
                   update_change_workspace(workspaces, config, id, ok))
    /\ UNCHANGED <<wm, config, subscribed, workspaces, queried, ctl, output, pending, listener, missed>>

\* Message::ToggleSpecialWorkspace(id), lines 85-91
ToggleSpecialWorkspace ==
    /\ ctl = "ready"
    /\ \E id \in MessageIds, ok_focus \in BOOLEAN, ok_toggle \in BOOLEAN :
          last' = processed("ToggleSpecialWorkspace", id,
                   update_toggle_special_workspace(workspaces, id, ok_focus, ok_toggle))
    /\ UNCHANGED <<wm, config, subscribed, workspaces, queried, ctl, output, pending, listener, missed>>

\* Message::Scroll(direction), lines 92-116
Scroll ==
    /\ ctl = "ready"
    /\ \E direction \in Directions, ok \in BOOLEAN :
          last' = processed("Scroll", direction,
                   update_scroll(workspaces, config, direction, ok))
    /\ UNCHANGED <<wm, config, subscribed, workspaces, queried, ctl, output, pending, listener, missed>>

(***************************************************************************)
(* SpecController: a controller constructed on a bounded input processes   *)
(* the messages of the UI.                                                 *)
(***************************************************************************)
\* the upstream lists of the controller's inputs
ControllerLists ==
    {ws \in SeqsUpTo(RawWorkspaces, MaxLen) :
        \A i \in 1..Len(ws) :
            (ws[i].id > 0 => ws[i].windows = 0) /\ (i > 1 => ws[i - 1].id < ws[i].id)}

\* the state Workspaces::new (mod.rs lines 56-64) leaves when it returns
Constructed(states, configs, fails) ==
    /\ wm \in states
    /\ config \in configs
    /\ \E f \in fails :
          LET q == Queries(wm, f)
          IN /\ ~Panics(q, config)
             /\ queried = q
             /\ \E o \in Orders(q, config) :
                   workspaces = store(<<>>, get_workspaces(q, config, o))
    /\ ctl = "ready"
    /\ last = NoMessage
    /\ output = 0
    /\ pending = 0
    /\ listener = "connecting"
    /\ missed = FALSE
    /\ subscribed = config

InitController ==
    Constructed({w \in WmStates : w.workspaces \in ControllerLists /\ Len(w.monitors) <= 1},
                Configs,
                {f \in Fails : ~f.monitors /\ ~f.workspaces})

NextController == ChangeWorkspace \/ ToggleSpecialWorkspace \/ Scroll

SpecController == InitController /\ [][NextController]_vars

(***************************************************************************)
(* hyprland.rs, create_subscription: the listener task, and the controller *)
(* taking its notifications from the channel.                              *)
(***************************************************************************)
\* the window-manager states of the running system
SystemWorkspace(id) ==
    [id |-> id, name |-> RawName(id), monitor_id |-> Some(0), monitor |-> "DP-1",
     windows |-> 1]

SystemStates ==
    [active : {Some(1), Some(2)},
     monitors : {<<[active_workspace |-> 1, special_workspace |-> 0]>>},
     workspaces : {<<SystemWorkspace(1)>>, <<SystemWorkspace(1), SystemWorkspace(2)>>}]

SystemConfigs ==
    [enable_virtual_desktops : BOOLEAN,
     enable_workspace_filling : {FALSE},
     max_workspaces : {None},
     workspace_names : {<< <<"w">> >>}]

\* Sender::try_send on a channel that buffers n notifications: Ok unless it is
\* full (futures' mpsc grants one more slot per sender, which moves the
\* threshold by one and changes nothing else)
try_send_ok(n) == n < ChannelSize

\* lines 201-203 and 350: a new AsyncEventListener gets its handlers and listens
StartListener ==
    /\ listener = "connecting"
    /\ listener' = "listening"
    /\ pending' = 0
    /\ UNCHANGED <<wm, config, subscribed, workspaces, queried, ctl, last, output, missed>>

\* lines 350-355: start_listener_async returns, an error is logged, and the loop
\* starts over; events the session had not read die with its connection
SessionEnds ==
    /\ listener = "listening"
    /\ listener' = "connecting"
    /\ pending' = 0
    /\ missed' = (missed \/ pending > 0)
    /\ UNCHANGED <<wm, config, subscribed, workspaces, queried, ctl, last, output>>

\* the window manager changes state and emits an event to the session, if any
WmEvent ==
    /\ \E w \in SystemStates \ {wm} : wm' = w
    /\ IF listener = "listening"
       THEN /\ pending < MaxPending
            /\ pending' = pending + 1
            /\ UNCHANGED missed
       ELSE /\ missed' = TRUE
            /\ UNCHANGED pending
    /\ UNCHANGED <<config, subscribed, workspaces, queried, ctl, last, output, listener>>

\* lines 204-348, any of the ten handlers:
\* output.try_send(Message::WorkspacesChanged).expect(..).  A failed send panics;
\* the panic unwinds the task that runs the listener loop, and the notifications
\* still buffered in its channel are dropped with the task unless the runtime
\* had taken them before.
HandleEvent ==
    /\ listener = "listening"
    /\ pending > 0
    /\ IF try_send_ok(output)
       THEN /\ output' = output + 1
            /\ pending' = pending - 1
            /\ UNCHANGED listener
       ELSE /\ listener' = "panicked"
            /\ pending' = 0
            /\ output' \in {output, 0}
    /\ UNCHANGED <<wm, config, subscribed, workspaces, queried, ctl, last, missed>>

\* Message::WorkspacesChanged, mod.rs lines 68-70, taken from the channel
WorkspacesChanged ==
    /\ ctl = "ready"
    /\ output > 0
    /\ output' = output - 1
    /\ Reconcile
    /\ last' = [msg |-> "WorkspacesChanged", arg |-> 0, dispatched |-> <<>>, logged |-> None]
    /\ UNCHANGED <<wm, config, subscribed, pending, listener, missed>>

Init == Constructed(SystemStates, SystemConfigs, Fails)

Next ==
    \/ WmEvent
    \/ StartListener
    \/ SessionEnds
    \/ HandleEvent
    \/ WorkspacesChanged

Spec == Init /\ [][Next]_vars

(***************************************************************************)
(* SpecSubscription: the system, with the application replacing the        *)
(* controller by one constructed from another config.                      *)
(***************************************************************************)
\* an identity that also carries enable_virtual_desktops
subscription_id_with_virtual_desktops(cfg) ==
    <<"HyprlandWorkspaceManager", cfg.enable_workspace_filling, cfg.enable_virtual_desktops>>

\* lines 194-198: Subscription::run_with_id((TypeId::of::<Self>(), enable_workspace_filling), ..)
subscription_id(cfg) == <<"HyprlandWorkspaceManager", cfg.enable_workspace_filling>>

ReloadConfigs ==
    [enable_virtual_desktops : BOOLEAN,
     enable_workspace_filling : BOOLEAN,
     max_workspaces : {None},
     workspace_names : {<< <<"w">> >>}]

\* Workspaces::new with another config (mod.rs 56-64), after which the runtime
\* compares the identity of Workspaces::subscription (mod.rs 236-238) with the
\* one of the stream it runs: an equal identity keeps the running stream, a new
\* one drops the stream with its channel and starts the new stream
ConfigChanged ==
    /\ ctl = "ready"
    /\ \E c \in ReloadConfigs \ {config} :
          /\ config' = c
          /\ IF subscription_id(c) # subscription_id(subscribed)
             THEN /\ subscribed' = c
                  /\ listener' = "connecting"
                  /\ pending' = 0
                  /\ output' = 0
             ELSE UNCHANGED <<subscribed, listener, pending, output>>
          /\ \E f \in Fails :
                LET q == Queries(wm, f)
                IN /\ ~Panics(q, c)
                   /\ queried' = q
                   /\ \E o \in Orders(q, c) :
                         workspaces' = store(<<>>, get_workspaces(q, c, o))
    /\ last' = NoMessage
    /\ UNCHANGED <<wm, ctl, missed>>

InitSubscription == Constructed(SystemStates, ReloadConfigs, Fails)

NextSubscription ==
    \/ WmEvent
    \/ StartListener
    \/ SessionEnds
    \/ HandleEvent
    \/ WorkspacesChanged
    \/ ConfigChanged

SpecSubscription == InitSubscription /\ [][NextSubscription]_vars

(***************************************************************************)
(* SpecScroll: Scroll and ChangeWorkspace on lists with two special        *)
(* workspaces, either of which a monitor may show.                         *)
(***************************************************************************)
ScrollWorkspace(id) ==
    [id |-> id, name |-> RawName(id), monitor_id |-> Some(0), monitor |-> "DP-1",
     windows |-> 0]

ScrollLists ==
    {SelectSeq(<<ScrollWorkspace(-2), ScrollWorkspace(-1), ScrollWorkspace(1),
                 ScrollWorkspace(2)>>, LAMBDA w : w.id \in S) : S \in SUBSET {-2, -1, 1, 2}}

ScrollStates ==
    [active : {Some(1), Some(2)},
     monitors : {<<[active_workspace |-> 1, special_workspace |-> sp]>> : sp \in {-2, -1, 0}},
     workspaces : ScrollLists]

InitScroll ==
    Constructed(ScrollStates, SystemConfigs, {f \in Fails : ~f.monitors /\ ~f.workspaces})

NextScroll == Scroll \/ ChangeWorkspace

SpecScroll == InitScroll /\ [][NextScroll]_vars

(***************************************************************************)
(* SpecDispatch: the system, with the user asking for workspaces while     *)
(* notifications are under way.                                            *)
(***************************************************************************)
NextDispatch ==
    \/ WmEvent
    \/ StartListener
    \/ SessionEnds
    \/ HandleEvent
    \/ WorkspacesChanged
    \/ ChangeWorkspace

SpecDispatch == Init /\ [][NextDispatch]_vars

(***************************************************************************)
(* niri.rs: the degraded backend, and the controller Workspaces<Niri..>.   *)
(***************************************************************************)
\* a get_workspaces that reports a workspace
niri_get_workspaces_reports(cfg) == <<filled_entry(1, cfg)>>

\* niri.rs lines 20-22
niri_get_workspaces(cfg) == <<>>

\* niri.rs lines 41-46: returns Ok(()) and sends nothing
niri_change_workspace(id, cfg) ==
    <<[cmd |-> "nothing", id |-> id, text |-> <<>>, ok |-> TRUE]>>

\* niri.rs lines 48-50: returns Ok(()) and sends nothing
niri_toggle_special_workspace(workspace) ==
    <<[cmd |-> "nothing", id |-> workspace.id, text |-> <<>>, ok |-> TRUE]>>

\* mod.rs lines 71-84 with WM = NiriWorkspaceManager
niri_update_change_workspace(list, cfg, id) ==
    IF id > 0
    THEN LET already_active ==
                 \E i \in 1..Len(list) : list[i].displayed = "Active" /\ list[i].id = id
         IN IF ~already_active THEN niri_change_workspace(id, cfg) ELSE <<>>
    ELSE <<>>

\* mod.rs lines 92-116 with WM = NiriWorkspaceManager
niri_update_scroll(list, cfg, direction) ==
    LET next == next_workspace(list, direction)
    IN IF next = None THEN <<>>
       ELSE niri_update_change_workspace(list, cfg, next[1].id)

\* mod.rs lines 85-91 with WM = NiriWorkspaceManager
niri_update_toggle_special_workspace(list, id) ==
    LET special == find(list, LAMBDA w : w.id = id /\ w.id < 0)
    IN IF special = None THEN <<>>
       ELSE niri_toggle_special_workspace(special[1])

\* mod.rs lines 56-64 with WM = NiriWorkspaceManager
NiriNew ==
    /\ ctl = "new"
    /\ workspaces' = store(workspaces, niri_get_workspaces(config))
    /\ ctl' = "ready"
    /\ UNCHANGED <<wm, config, subscribed, queried, last, output, pending, listener, missed>>

\* niri.rs lines 24-39: the subscription spawns a task that awaits pending()
\* and awaits that task; the channel's sender is never used
NiriSubscription ==
    /\ listener = "connecting"
    /\ listener' = "parked"
    /\ UNCHANGED <<wm, config, subscribed, workspaces, queried, ctl, last, output, pending, missed>>

\* the compositor changes state; no session of this backend hears of it
NiriWmEvent ==
    /\ \E w \in SystemStates \ {wm} : wm' = w
    /\ missed' = TRUE
    /\ UNCHANGED <<config, subscribed, workspaces, queried, ctl, last, output, pending, listener>>

NiriChangeWorkspace ==
    /\ ctl = "ready"
    /\ \E id \in MessageIds :
          last' = processed("ChangeWorkspace", id,
                   niri_update_change_workspace(workspaces, config, id))
    /\ UNCHANGED <<wm, config, subscribed, workspaces, queried, ctl, output, pending, listener, missed>>

NiriToggleSpecialWorkspace ==
    /\ ctl = "ready"
    /\ \E id \in MessageIds :
          last' = processed("ToggleSpecialWorkspace", id,
                   niri_update_toggle_special_workspace(workspaces, id))
    /\ UNCHANGED <<wm, config, subscribed, workspaces, queried, ctl, output, pending, listener, missed>>

NiriScroll ==
    /\ ctl = "ready"
    /\ \E direction \in Directions :
          last' = processed("Scroll", direction,
                   niri_update_scroll(workspaces, config, direction))
    /\ UNCHANGED <<wm, config, subscribed, workspaces, queried, ctl, output, pending, listener, missed>>

InitNiri ==
    /\ wm \in SystemStates
    /\ config \in Configs
    /\ workspaces = <<>>
    /\ queried = NoQuery
    /\ ctl = "new"
    /\ last = NoMessage
    /\ output = 0
    /\ pending = 0
    /\ listener = "connecting"
    /\ missed = FALSE
    /\ subscribed = config

NextNiri ==
    \/ NiriNew
    \/ NiriSubscription
    \/ NiriWmEvent
    \/ NiriChangeWorkspace
    \/ NiriToggleSpecialWorkspace
    \/ NiriScroll

SpecNiri == InitNiri /\ [][NextNiri]_vars

(***************************************************************************)
(* Properties of get_workspaces, checked under SpecQuery.                  *)
(***************************************************************************)
Ids(list) == {list[i].id : i \in 1..Len(list)}
ActiveIds(list) == {list[i].id : i \in {j \in 1..Len(list) : list[j].displayed = "Active"}}
Returned == ctl = "ready"

\* C1: the list get_workspaces returns, which the controller stores, is sorted
\* ascending by id and holds no id twice.
C1_SortedUnique ==
    Returned =>
        /\ \A i, j \in 1..Len(workspaces) : i < j => workspaces[i].id <= workspaces[j].id
        /\ \A i, j \in 1..Len(workspaces) : i # j => workspaces[i].id # workspaces[j].id

\* C1 witness: the backend reported a normal workspace before a special one, and
\* the returned list holds the special workspace and synthesized entries.
C1_Witness ==
    /\ Returned
    /\ Len(workspaces) >= 4
    /\ \E i \in 1..Len(workspaces) : workspaces[i].id < 0
    /\ \E i, j \in 1..Len(queried.workspaces) :
          i < j /\ queried.workspaces[i].id > queried.workspaces[j].id

\* C2 as stated: at most one entry of the returned list is Active.
C2_AtMostOneActive == Returned => Cardinality(ActiveIds(workspaces)) <= 1

\* C2 as amended: at most one entry with id >= 0 (a normal workspace or a virtual
\* desktop) is Active; special workspaces are Active on their own account.
C2_AtMostOneNormalActive ==
    Returned => Cardinality({id \in ActiveIds(workspaces) : id >= 0}) <= 1

\* C2 witness: a special workspace and a normal one are Active in the same list.
C2_Witness ==
    /\ Returned
    /\ \E a, b \in ActiveIds(workspaces) : a < 0 /\ b > 0

\* C7 as stated: get_workspaces returns a list whatever the queries answer.
C7_NeverFails == ctl # "panicked"

\* the ids the backend reported to the last call, and the normal ones among them
UpstreamIds == Ids(queried.workspaces)
NormalUpstream == {id \in UpstreamIds : id >= 0}

\* in virtual-desktop mode the entries built before the filling step carry the
\* special ids and the virtual-desktop ids of the normal workspaces
BuiltIds ==
    IF config.enable_virtual_desktops
    THEN (UpstreamIds \ NormalUpstream)
         \cup {TruncDiv(id - 1, Len(queried.monitors)) + 1 : id \in NormalUpstream}
    ELSE UpstreamIds

\* 1..=max_id for max_id = max(largest positive id of `existing`, max_workspaces)
FillRange(existing) ==
    LET tops == {id \in existing : id > 0} \cup {0}
                \cup {config.max_workspaces[i] : i \in 1..Len(config.max_workspaces)}
    IN 1..SetMax(tops)

Placeholder(w) ==
    w.monitor_id = None /\ w.monitor = "" /\ w.displayed = "Hidden" /\ w.windows = 0

\* what the same call returns with enable_workspace_filling off
Unfilled ==
    get_workspaces(queried, [config EXCEPT !.enable_workspace_filling = FALSE],
                   CHOOSE o \in Orders(queried, config) : TRUE)

\* the filling rule of C10, relative to a set of existing ids
FillingRule(existing) ==
    IF config.enable_workspace_filling /\ NormalUpstream # {}
    THEN /\ Ids(workspaces) = existing \cup FillRange(existing)
         /\ \A i \in 1..Len(workspaces) :
               workspaces[i].id \notin existing => Placeholder(workspaces[i])
         /\ SelectSeq(workspaces, LAMBDA w : w.id \in existing) = Unfilled
    ELSE workspaces = Unfilled

\* C10 as stated: with filling on and a normal workspace upstream, the list holds
\* every id of 1..=max_id, max_id the larger of the largest positive upstream id
\* and max_workspaces; an id not present upstream is a placeholder, the other
\* entries are as without filling; otherwise nothing is synthesized.
C10_FillingUpstream == Returned => FillingRule(UpstreamIds)

\* C10 as amended: the same rule relative to the ids of the entries built before
\* the filling step (the upstream ids in per-monitor mode, the special and
\* virtual-desktop ids in virtual-desktop mode).
C10_FillingBuilt == Returned => FillingRule(BuiltIds)

\* C10 witness: per-monitor filling closes a gap below the largest upstream id
\* and extends the list up to max_workspaces.
C10_Witness ==
    /\ Returned
    /\ config.enable_workspace_filling
    /\ ~config.enable_virtual_desktops
    /\ \E i, j \in 1..Len(workspaces) :
          /\ workspaces[i].id \notin UpstreamIds
          /\ workspaces[j].id \notin UpstreamIds
          /\ \E id \in NormalUpstream : workspaces[i].id < id /\ id < workspaces[j].id

\* the first report of id in the upstream list of the last call
FirstOf(id) ==
    queried.workspaces[SetMin({i \in 1..Len(queried.workspaces) :
                                  queried.workspaces[i].id = id})]

EntriesWith(id) == {i \in 1..Len(workspaces) : workspaces[i].id = id}

\* vdesk_id = ((id - 1) / monitor_count) + 1 and the normal workspaces it groups
VdeskOf(id) == TruncDiv(id - 1, Len(queried.monitors)) + 1
VdeskIds == {VdeskOf(id) : id \in NormalUpstream}
Members(v) == {id \in NormalUpstream : VdeskOf(id) = v}

RECURSIVE SumWindows(_)
SumWindows(S) ==
    IF S = {} THEN 0
    ELSE LET id == CHOOSE x \in S : TRUE
         IN FirstOf(id).windows + SumWindows(S \ {id})

\* virtual desktop v has one entry: the sum of its members' windows, Active iff
\* a member is the backend's active workspace and Hidden otherwise, no monitor
Aggregated(v) ==
    \E i \in 1..Len(workspaces) :
        /\ EntriesWith(v) = {i}
        /\ workspaces[i].windows = SumWindows(Members(v))
        /\ workspaces[i].displayed =
              IF \E id \in Members(v) : queried.active = Some(id)
              THEN "Active" ELSE "Hidden"
        /\ workspaces[i].monitor_id = None
        /\ workspaces[i].monitor = ""

VdeskCall ==
    Returned /\ config.enable_virtual_desktops /\ Len(queried.monitors) >= 1

\* C11 as stated: in virtual-desktop mode with at least one monitor, the
\* non-special entries of the list are the virtual desktops of the normal
\* workspaces, one aggregated entry each, and nothing else.
C11_OnlyVirtualDesktops ==
    VdeskCall =>
        /\ {id \in Ids(workspaces) : id >= 0} = VdeskIds
        /\ \A v \in VdeskIds : Aggregated(v)

\* C11 as amended: each virtual desktop of the normal workspaces has its one
\* aggregated entry; any other non-special entry is a placeholder of the filling
\* step, which exists only with enable_workspace_filling on.
C11_VirtualDesktopsAndPlaceholders ==
    VdeskCall =>
        /\ \A v \in VdeskIds : Aggregated(v)
        /\ \A i \in 1..Len(workspaces) :
              (workspaces[i].id >= 0 /\ workspaces[i].id \notin VdeskIds)
                  => (config.enable_workspace_filling /\ Placeholder(workspaces[i]))

\* C11 witness: two monitors, two normal workspaces with a window each fall
\* into one virtual desktop, which is Active with two windows.
C11_Witness ==
    /\ VdeskCall
    /\ Len(queried.monitors) = 2
    /\ \E v \in VdeskIds :
          /\ Cardinality(Members(v)) = 2
          /\ \E i \in EntriesWith(v) :
                workspaces[i].windows = 2 /\ workspaces[i].displayed = "Active"

\* the name of the entry built from upstream workspace w
ExpectedName(w) == IF w.id > 0 THEN display_name(w.id, config) ELSE split_last(w.name)

\* id has one entry, with the fields of the first upstream report of id
FromFirst(id) ==
    \E i \in 1..Len(workspaces) :
        /\ EntriesWith(id) = {i}
        /\ workspaces[i].name = ExpectedName(FirstOf(id))
        /\ workspaces[i].monitor = FirstOf(id).monitor
        /\ workspaces[i].monitor_id = FirstOf(id).monitor_id
        /\ workspaces[i].windows = FirstOf(id).windows

Duplicated ==
    {id \in UpstreamIds :
        Cardinality({i \in 1..Len(queried.workspaces) : queried.workspaces[i].id = id}) > 1}

\* C12 as stated: an id reported several times has one entry in the list, with
\* the fields of its first report.
C12_FirstOccurrence == Returned => \A id \in Duplicated : FromFirst(id)

\* C12 as amended: the same for special workspaces in both modes and for normal
\* workspaces in per-monitor mode; in virtual-desktop mode a normal workspace
\* reported several times counts once, with its first report, in the aggregate
\* of its virtual desktop.
C12_FirstOccurrencePerMode ==
    Returned =>
        \A id \in Duplicated :
            IF id < 0 \/ ~config.enable_virtual_desktops
            THEN FromFirst(id)
            ELSE Aggregated(VdeskOf(id))

\* C12 witness: per-monitor mode, one id reported twice with different window
\* counts and monitors, and the list shows the first report.
C12_Witness ==
    /\ Returned
    /\ ~config.enable_virtual_desktops
    /\ \E id \in Duplicated :
          /\ id > 0
          /\ queried.workspaces[1].id = id
          /\ queried.workspaces[2].windows # queried.workspaces[1].windows
          /\ \E i \in EntriesWith(id) :
                workspaces[i].windows = queried.workspaces[1].windows

\* C13: a call returns the same list whatever order the virtual-desktop map is
\* iterated in, so two calls that get the same query results return identical
\* lists.
C13_Deterministic ==
    Returned => \A o \in Orders(queried, config) : get_workspaces(queried, config, o) = workspaces

\* C13 witness: the map holds two virtual desktops, and an iteration order that
\* yields them in descending order builds a list other than the returned one.
C13_Witness ==
    /\ Returned
    /\ config.enable_virtual_desktops
    /\ \E o \in Orders(queried, config) :
          /\ Len(o) >= 2
          /\ o[1] > o[2]
          /\ mapped(queried, config, o) # workspaces

NormalActiveIds == {id \in ActiveIds(workspaces) : id >= 0}

\* C14 as stated: if the active-workspace query returned a workspace, some
\* entry of the list is Active.
C14_ActiveWheneverReported ==
    (Returned /\ queried.active # None) => ActiveIds(workspaces) # {}

\* C14 as amended: a normal entry is Active exactly if the active-workspace
\* query returned a workspace whose id is among the normal workspaces the
\* workspaces query returned; it is that workspace's entry, or its virtual
\* desktop's.
C14_ActiveIfListed ==
    Returned =>
        NormalActiveIds =
            IF queried.active # None /\ queried.active[1] \in NormalUpstream
            THEN IF config.enable_virtual_desktops
                 THEN {VdeskOf(queried.active[1])}
                 ELSE {queried.active[1]}
            ELSE {}

\* C14 witness: the active workspace is reported and listed together with
\* another normal workspace, and its entry is the Active one.
C14_Witness ==
    /\ Returned
    /\ ~config.enable_virtual_desktops
    /\ queried.active # None
    /\ queried.active[1] \in NormalUpstream
    /\ Cardinality(NormalUpstream) >= 2
    /\ NormalActiveIds = {queried.active[1]}

\* the entries of the list that stand for no upstream workspace or virtual desktop
Synthesized == Ids(workspaces) \ BuiltIds

\* C17 as stated: in virtual-desktop mode the list holds no synthesized entry.
C17_NoFillingInVirtualDesktopMode ==
    (Returned /\ config.enable_virtual_desktops) => Synthesized = {}

\* C17 as amended: in virtual-desktop mode too, with filling on and a normal
\* workspace upstream, the ids of 1..=max_id that no special or virtual-desktop
\* entry carries are synthesized as placeholders; nothing is synthesized with
\* filling off or without a normal workspace.
C17_FillingInVirtualDesktopMode ==
    (Returned /\ config.enable_virtual_desktops) =>
        /\ Synthesized =
              IF config.enable_workspace_filling /\ NormalUpstream # {}
              THEN FillRange(BuiltIds) \ BuiltIds
              ELSE {}
        /\ \A i \in 1..Len(workspaces) :
              workspaces[i].id \in Synthesized => Placeholder(workspaces[i])

\* C17 witness: virtual-desktop mode with filling on returns a placeholder below
\* a virtual desktop.
C17_Witness ==
    /\ Returned
    /\ config.enable_virtual_desktops
    /\ config.enable_workspace_filling
    /\ \E id \in Synthesized : \E v \in VdeskIds : id < v

\* the classification of per-monitor mode
Classified(id) ==
    IF queried.active = Some(id) THEN "Active"
    ELSE IF \E i \in 1..Len(queried.monitors) : queried.monitors[i].active_workspace = id
         THEN "Visible" ELSE "Hidden"

\* C19: in per-monitor mode each normal workspace (first report) has exactly one
\* entry with its id, monitor and window count, Active if it is the backend's
\* active workspace, else Visible if a monitor shows it, else Hidden.
C19_PerMonitorClassification ==
    (Returned /\ ~config.enable_virtual_desktops) =>
        \A id \in NormalUpstream :
            \E i \in 1..Len(workspaces) :
                /\ EntriesWith(id) = {i}
                /\ workspaces[i].monitor = FirstOf(id).monitor
                /\ workspaces[i].monitor_id = FirstOf(id).monitor_id
                /\ workspaces[i].windows = FirstOf(id).windows
                /\ workspaces[i].displayed = Classified(id)

\* C19 witness: one workspace is Active and another, shown by a monitor, is
\* Visible.
C19_Witness ==
    /\ Returned
    /\ ~config.enable_virtual_desktops
    /\ \E i, j \in 1..Len(workspaces) :
          /\ workspaces[i].id \in NormalUpstream
          /\ workspaces[j].id \in NormalUpstream
          /\ workspaces[i].displayed = "Active"
          /\ workspaces[j].displayed = "Visible"

\* C20: each special workspace has one entry, Active iff some monitor's special
\* workspace has its id and Hidden otherwise; no entry with a negative id is
\* ever Visible, in both modes and whatever the active workspace is.
C20_SpecialClassification ==
    Returned =>
        /\ \A id \in UpstreamIds \ NormalUpstream :
              \E i \in 1..Len(workspaces) :
                  /\ EntriesWith(id) = {i}
                  /\ workspaces[i].displayed =
                        IF \E m \in 1..Len(queried.monitors) :
                               queried.monitors[m].special_workspace = id
                        THEN "Active" ELSE "Hidden"
        /\ \A i \in 1..Len(workspaces) :
              workspaces[i].id < 0 => workspaces[i].displayed # "Visible"

\* C20 witness: virtual-desktop mode, a special workspace no monitor has
\* assigned is Hidden next to an Active virtual desktop.
C20_Witness ==
    /\ Returned
    /\ config.enable_virtual_desktops
    /\ \E i, j \in 1..Len(workspaces) :
          /\ workspaces[i].id < 0
          /\ workspaces[i].displayed = "Hidden"
          /\ workspaces[j].id > 0
          /\ workspaces[j].displayed = "Active"

\* C22 as stated: in virtual-desktop mode a call that got no monitors completes
\* as with monitor_count = 1, with one entry per normal workspace id >= 1.
C22_ZeroMonitorsAsOne ==
    (ctl # "new" /\ config.enable_virtual_desktops /\ Len(queried.monitors) = 0) =>
        /\ Returned
        /\ \A id \in NormalUpstream : id >= 1 => Cardinality(EntriesWith(id)) = 1

(***************************************************************************)
(* Properties of the controller and the listener, checked under Spec.      *)
(***************************************************************************)
\* C3: a processed WorkspacesChanged leaves in the controller exactly a list
\* that a fresh get_workspaces call returns in the window manager's current
\* state, and so does construction.
C3_ListReplaced ==
    /\ workspaces \in Results(wm, config)
    /\ [][(output' = output - 1 /\ ctl' = "ready")
             => workspaces' \in Results(wm', config')]_vars

\* C3 witness: a WorkspacesChanged was processed after the window manager had
\* changed, and the stored list shows both of its workspaces.
C3_Witness ==
    /\ last.msg = "WorkspacesChanged"
    /\ ctl = "ready"
    /\ Len(wm.workspaces) = 2
    /\ Len(workspaces) = 2
    /\ workspaces \in Results(wm, config)

\* C4 as stated, for a run in which every event reached a listening session:
\* once no event and no notification is in flight, the controller's list is one
\* that get_workspaces returns in the window manager's current state.
C4_NoEventLost ==
    (ctl = "ready" /\ ~missed /\ pending = 0 /\ output = 0)
        => workspaces \in Results(wm, config)

\* C5 as stated: no handler outcome takes the listener out of its cycle of
\* constructing a session and listening.
C5_ListenerInCycle == listener \in {"connecting", "listening"}

\* C6 as stated: a handler that fires while the channel is full drops its
\* notification, and the listener goes on listening.
C6_FullChannelDrops ==
    [][(listener = "listening" /\ output = ChannelSize
        /\ pending' < pending /\ listener' # "connecting")
          => (listener' = "listening" /\ output' = output /\ pending' = pending - 1)]_vars

\* C27 as stated: a change of the window manager that fell between two sessions
\* is reconciled by the reconnect itself: once a session listens and no event
\* and no notification is under way, the controller's list is one that
\* get_workspaces returns in the window manager's current state.
C27_ReconnectReconciles ==
    (ctl = "ready" /\ listener = "listening" /\ pending = 0 /\ output = 0)
        => workspaces \in Results(wm, config)

(***************************************************************************)
(* Properties of the controller's messages, checked under SpecController.  *)
(***************************************************************************)
\* the dispatch calls d are those of ChangeWorkspace(n): one change_workspace
\* call for n if n > 0 and n is not Active in the list, and none otherwise
IsChangeWorkspace(d, n) ==
    IF n > 0 /\ n \notin ActiveIds(workspaces)
    THEN /\ Len(d) = 1
         /\ d[1].id = n
         /\ d[1].cmd = IF config.enable_virtual_desktops THEN "vdesk" ELSE "workspace"
    ELSE d = <<>>

\* Scroll(direction) from the Active id a: ChangeWorkspace of the nearest id
\* above a (direction > 0) or below a (direction < 0), nothing without one
IsScrollFrom(d, a, direction) ==
    LET above == {id \in Ids(workspaces) : id > a}
        below == {id \in Ids(workspaces) : id < a}
    IN IF direction > 0
       THEN IF above = {} THEN d = <<>> ELSE IsChangeWorkspace(d, SetMin(above))
       ELSE IF below = {} THEN d = <<>> ELSE IsChangeWorkspace(d, SetMax(below))

\* C8 as stated: Scroll navigates from an Active entry, whichever it is.
C8_ScrollFromAnyActive ==
    (last.msg = "Scroll" /\ last.arg # 0) =>
        IF ActiveIds(workspaces) = {} THEN last.dispatched = <<>>
        ELSE \A a \in ActiveIds(workspaces) : IsScrollFrom(last.dispatched, a, last.arg)

\* C8 as amended: Scroll navigates from the first Active entry of the list, the
\* one with the smallest id.
C8_ScrollFromFirstActive ==
    (last.msg = "Scroll" /\ last.arg # 0) =>
        IF ActiveIds(workspaces) = {} THEN last.dispatched = <<>>
        ELSE IsScrollFrom(last.dispatched, SetMin(ActiveIds(workspaces)), last.arg)

\* C8 witness: a forward Scroll from an Active entry with two ids above it and
\* one below dispatched a workspace change.
C8_Witness ==
    /\ last.msg = "Scroll"
    /\ last.arg > 0
    /\ last.dispatched # <<>>
    /\ \E a \in ActiveIds(workspaces) :
          /\ a = SetMin(ActiveIds(workspaces))
          /\ Cardinality({id \in Ids(workspaces) : id > a}) >= 2
          /\ Cardinality({id \in Ids(workspaces) : id < a}) >= 1

\* C9: ChangeWorkspace(id) makes exactly one change_workspace call if id > 0 and
\* no entry with that id is Active, and no dispatch call otherwise.
C9_ChangeWorkspaceDispatch ==
    last.msg = "ChangeWorkspace" => IsChangeWorkspace(last.dispatched, last.arg)

\* C9 witness: a ChangeWorkspace to a workspace of the list that is not the
\* Active one made its call.
C9_Witness ==
    /\ last.msg = "ChangeWorkspace"
    /\ last.arg \in Ids(workspaces) \ ActiveIds(workspaces)
    /\ ActiveIds(workspaces) # {}
    /\ Len(last.dispatched) = 1

\* C15: ToggleSpecialWorkspace(id) calls toggle_special_workspace, for the entry
\* with that id, iff id < 0 and the list holds an entry with that id; otherwise
\* it makes no dispatch call; in both cases it changes nothing of the
\* controller's or the window manager's state.
C15_ToggleSpecialOnly ==
    [][last'.msg = "ToggleSpecialWorkspace" =>
          /\ IF last'.arg < 0 /\ last'.arg \in Ids(workspaces)
             THEN /\ last'.dispatched # <<>>
                  /\ last'.dispatched[1].cmd = "focusmonitor"
                  /\ \A i \in 2..Len(last'.dispatched) :
                        /\ last'.dispatched[i].cmd = "togglespecialworkspace"
                        /\ last'.dispatched[i].id = last'.arg
             ELSE last'.dispatched = <<>>
          /\ UNCHANGED <<wm, config, subscribed, workspaces, ctl>>]_vars

\* C15 witness: the toggle of a special workspace of the list went through.
C15_Witness ==
    /\ last.msg = "ToggleSpecialWorkspace"
    /\ last.arg < 0
    /\ last.arg \in Ids(workspaces)
    /\ Len(last.dispatched) = 2
    /\ last.dispatched[2].cmd = "togglespecialworkspace"

\* no command is sent twice, and nothing is sent after a rejected command
AttemptedOnce(d) ==
    /\ \A i, j \in 1..Len(d) : i # j => d[i].cmd # d[j].cmd
    /\ \A i \in 1..Len(d) : ~d[i].ok => i = Len(d)

\* C16: ChangeWorkspace, ToggleSpecialWorkspace and Scroll leave the list and the
\* config as they are whether the dispatch succeeds, fails or is not made; a
\* failed dispatch is made once, and the controller stays ready for the next
\* message.
C16_MessagesKeepList ==
    [][last'.msg \in {"ChangeWorkspace", "ToggleSpecialWorkspace", "Scroll"} =>
          /\ workspaces' = workspaces
          /\ config' = config
          /\ ctl' = "ready"
          /\ AttemptedOnce(last'.dispatched)]_vars

\* C16 witness: a dispatch was rejected, and the controller is ready with its
\* list.
C16_Witness ==
    /\ ctl = "ready"
    /\ workspaces # <<>>
    /\ last.msg \in {"ChangeWorkspace", "Scroll"}
    /\ Len(last.dispatched) = 1
    /\ ~last.dispatched[1].ok

\* C23 as stated: Scroll goes to the nearest id above the first Active entry
\* only for direction > 0 and to the nearest id below it only for
\* direction < 0; Scroll(0) makes no dispatch call.
C23_ScrollZeroIdle ==
    last.msg = "Scroll" =>
        IF ActiveIds(workspaces) = {} \/ last.arg = 0 THEN last.dispatched = <<>>
        ELSE IsScrollFrom(last.dispatched, SetMin(ActiveIds(workspaces)), last.arg)

\* C23 as amended: the nearest id above is selected exactly for direction > 0,
\* and the nearest id below for every direction <= 0, Scroll(0) included.
C23_ScrollZeroBackward ==
    last.msg = "Scroll" =>
        IF ActiveIds(workspaces) = {} THEN last.dispatched = <<>>
        ELSE LET a == SetMin(ActiveIds(workspaces))
                 below == {id \in Ids(workspaces) : id < a}
                 above == {id \in Ids(workspaces) : id > a}
                 target == IF last.arg > 0 THEN above ELSE below
             IN /\ \A i \in 1..Len(last.dispatched) : last.dispatched[i].id \in target
                /\ IsScrollFrom(last.dispatched, a, IF last.arg > 0 THEN 1 ELSE -1)

\* C23 witness: Scroll(0) from an Active entry with ids on both sides dispatched
\* a change to the id below.
C23_Witness ==
    /\ last.msg = "Scroll"
    /\ last.arg = 0
    /\ Len(last.dispatched) = 1
    /\ \E a \in ActiveIds(workspaces) :
          /\ a = SetMin(ActiveIds(workspaces))
          /\ last.dispatched[1].id < a
          /\ \E id \in Ids(workspaces) : id > a

(***************************************************************************)
(* Properties of the degraded backend, checked under SpecNiri.             *)
(***************************************************************************)
\* C18: with the degraded backend the controller's list is always empty, every
\* dispatch call returns success and sends nothing, Scroll and
\* ToggleSpecialWorkspace make no dispatch call, and the listener neither ends
\* nor emits.
C18_Degraded ==
    /\ workspaces = <<>>
    /\ \A i \in 1..Len(last.dispatched) :
          last.dispatched[i].ok /\ last.dispatched[i].cmd = "nothing"
    /\ last.msg \in {"Scroll", "ToggleSpecialWorkspace"} => last.dispatched = <<>>
    /\ listener \in {"connecting", "parked"}
    /\ output = 0

\* C18 witness: the compositor has changed, the listener is parked, and a
\* ChangeWorkspace was answered with success.
C18_Witness ==
    /\ ctl = "ready"
    /\ listener = "parked"
    /\ missed
    /\ workspaces = <<>>
    /\ last.msg = "ChangeWorkspace"
    /\ Len(last.dispatched) = 1
    /\ last.dispatched[1].ok

(***************************************************************************)
(* Properties of the special workspaces' names, checked under SpecNames.   *)
(***************************************************************************)
Colons(s) == {i \in 1..Len(s) : s[i] = ":"}
AfterLastColon(s) == SubSeq(s, SetMax(Colons(s)) + 1, Len(s))

\* every special entry is named name_of(raw name of its first report)
SpecialNamed(name_of(_)) ==
    Returned =>
        \A i \in 1..Len(workspaces) :
            (workspaces[i].id < 0 /\ workspaces[i].id \in UpstreamIds)
                => workspaces[i].name = name_of(FirstOf(workspaces[i].id).name)

\* C21 as stated: the display name of a special workspace is the part of its raw
\* name after the last ':', and the empty string for a raw name without ':'.
C21_AfterLastColonOrEmpty ==
    SpecialNamed(LAMBDA s : IF Colons(s) = {} THEN <<>> ELSE AfterLastColon(s))

\* C21 as amended: the part after the last ':', and the whole raw name for a raw
\* name without ':'.
C21_AfterLastColonOrWhole ==
    SpecialNamed(LAMBDA s : IF Colons(s) = {} THEN s ELSE AfterLastColon(s))

\* C21 witness: a raw name with two ':' is shown by what follows the second.
C21_Witness ==
    /\ Returned
    /\ queried.workspaces # <<>>
    /\ Cardinality(Colons(queried.workspaces[1].name)) = 2
    /\ Len(workspaces) = 1
    /\ workspaces[1].name # <<>>
    /\ workspaces[1].name = AfterLastColon(queried.workspaces[1].name)

\* the entry of the list that ToggleSpecialWorkspace(id) hands to the dispatch
Toggled == workspaces[CHOOSE i \in 1..Len(workspaces) : workspaces[i].id = last.arg]

\* C24: toggle_special_workspace first sends the focus-monitor command, for the
\* workspace's monitor_id or for 0 if it has none; it sends the toggle command,
\* with the workspace's name, only after the focus command succeeded; if the
\* focus command fails no toggle command is sent and the focus error is the
\* result.
C24_FocusThenToggle ==
    (last.msg = "ToggleSpecialWorkspace" /\ last.dispatched # <<>>) =>
        LET d == last.dispatched
        IN /\ d[1].cmd = "focusmonitor"
           /\ d[1].id = IF Toggled.monitor_id = None THEN 0 ELSE Toggled.monitor_id[1]
           /\ IF d[1].ok
              THEN /\ Len(d) = 2
                   /\ d[2].cmd = "togglespecialworkspace"
                   /\ d[2].text = Toggled.name
                   /\ last.logged = IF d[2].ok THEN None ELSE Some("togglespecialworkspace")
              ELSE /\ Len(d) = 1
                   /\ last.logged = Some("focusmonitor")

\* C24 witness: the focus command for monitor 1 was rejected, and nothing
\* followed it.
C24_Witness ==
    /\ last.msg = "ToggleSpecialWorkspace"
    /\ Len(last.dispatched) = 1
    /\ last.dispatched[1].cmd = "focusmonitor"
    /\ last.dispatched[1].id = 1
    /\ ~last.dispatched[1].ok
    /\ last.logged = Some("focusmonitor")

(***************************************************************************)
(* Properties of the subscription identity, checked under SpecSubscription.*)
(***************************************************************************)
Running == listener = "listening"

\* C25 as stated: the running stream was created from a config with the current
\* enable_virtual_desktops, a change of that flag having restarted the listener.
C25_RestartedOnVirtualDesktops ==
    Running => subscribed.enable_virtual_desktops = config.enable_virtual_desktops

\* C25 as amended: the identity consists of the backend type and
\* enable_workspace_filling: a change of config restarts the listener exactly
\* if it changes enable_workspace_filling; a config that differs in
\* enable_virtual_desktops alone leaves the running stream as it is.
C25_RestartedOnWorkspaceFilling ==
    [][config' # config =>
          IF config'.enable_workspace_filling # config.enable_workspace_filling
          THEN listener' = "connecting" /\ subscribed' = config'
          ELSE UNCHANGED <<listener, subscribed, pending, output>>]_vars

\* C25 witness: the listener runs on the stream of a config whose
\* enable_virtual_desktops is no longer the controller's, with events waiting.
C25_Witness ==
    /\ Running
    /\ pending > 0
    /\ subscribed.enable_virtual_desktops # config.enable_virtual_desktops
    /\ subscribed.enable_workspace_filling = config.enable_workspace_filling

(***************************************************************************)
(* Properties of a dispatch next to pending notifications, checked under   *)
(* SpecDispatch.                                                           *)
(***************************************************************************)
\* a step that processes ChangeWorkspace(id) for an id > 0
ChangeWorkspaceStep ==
    last' # last /\ last'.msg = "ChangeWorkspace" /\ last'.arg > 0

\* C26: ChangeWorkspace(id), id > 0, processed while the window
\* manager's active workspace is not id, makes a change_workspace call, also
\* with a WorkspacesChanged still to be processed.
C26_DispatchUnlessActiveInWm ==
    [][(ChangeWorkspaceStep /\ wm.active # Some(last'.arg))
          => last'.dispatched # <<>>]_vars

(***************************************************************************)
(* Properties of Scroll on a list with several Active entries, checked     *)
(* under SpecScroll.                                                       *)
(***************************************************************************)
\* C28: with more than one Active entry in the list, Scroll goes from the Active
\* entry with the smallest id, and makes no dispatch call if the neighbour it
\* selects has an id <= 0.
C28_ScrollWithSeveralActive ==
    (last.msg = "Scroll" /\ Cardinality(ActiveIds(workspaces)) > 1) =>
        LET a == SetMin(ActiveIds(workspaces))
            side == IF last.arg > 0 THEN {id \in Ids(workspaces) : id > a}
                                    ELSE {id \in Ids(workspaces) : id < a}
        IN IF side = {} THEN last.dispatched = <<>>
           ELSE LET n == IF last.arg > 0 THEN SetMin(side) ELSE SetMax(side)
                IN IF n <= 0 THEN last.dispatched = <<>>
                   ELSE IsChangeWorkspace(last.dispatched, n)

\* C28 witness: a special and a normal workspace are Active; a backward Scroll
\* from the special one selects the special workspace below it, and nothing is
\* dispatched although a backward Scroll from the normal one had a target.
C28_Witness ==
    /\ last.msg = "Scroll"
    /\ last.arg < 0
    /\ last.dispatched = <<>>
    /\ ActiveIds(workspaces) = {-1, 2}
    /\ Ids(workspaces) = {-2, -1, 1, 2}

====
